---- MODULE Spec2Model ----
(***************************************************************************)
(* Model of the `reportify` crate (crates/reportify/src/lib.rs): a Report  *)
(* pairs an error value with a ReportContext (breadcrumb items, the index  *)
(* of the live error's item, a backtrace and a span trace).  The model     *)
(* threads one `Result` value through the crate's combinators, the way a   *)
(* call chain does, and renders it with Display::fmt.                      *)
(***************************************************************************)
EXTENDS Naturals, Sequences, FiniteSets, TLC

\* ------------------------------------------------------------------ bounds

\* Longest breadcrumb sequence the model builds (guards of the appending steps).
MaxItems == 3

\* ------------------------------------------------------------------ inputs

\* Call sites reported by Location::caller(), as Display prints them.
Locations == {"src/main.rs:10:5", "src/app.rs:27:14"}

\* Texts attached as context.
Texts == {"step 1", "step 2"}

\* Success values.
Values == {"v1", "v2"}

\* An Option<T> is a sequence of length at most one.
None == <<>>
Some(x) == <<x>>

\* ------------------------------------------------------------- error values
\* An error value is what the `Error` trait exposes of it: `message` is
\* message() (None or Some(text)), `std` is whether as_std_error() is Some,
\* `sources` is the Display text of each link of the source() chain walked
\* from as_std_error().

\* std::io::Error::new(NotFound, "file not found"): blanket impl, no source.
IoNotFound ==
  [name |-> "io::Error", message |-> Some("file not found"), std |-> TRUE, sources |-> <<>>]

\* A std error with a two-link source chain: blanket impl.
ConfigError ==
  [name |-> "ConfigError", message |-> Some("config load failed"), std |-> TRUE,
   sources |-> <<"parse error", "unexpected eof">>]

\* A hand-written `impl Error` with a message and the default as_std_error().
QuotaError ==
  [name |-> "QuotaError", message |-> Some("quota exceeded"), std |-> FALSE, sources |-> <<>>]

\* A hand-written `impl Error` without a message whose as_std_error() exposes
\* an inner error that has one source.
OpaqueError ==
  [name |-> "OpaqueError", message |-> None, std |-> TRUE, sources |-> <<"disk failure">>]

\* A marker type whose message() answers with the type's name.
WhateverNamed ==
  [name |-> "TestError", message |-> Some("TestError"), std |-> FALSE, sources |-> <<>>]

\* new_whatever_type!(TestError): message() is None, as_std_error() defaults to None.
WhateverNew ==
  [name |-> "TestError", message |-> None, std |-> FALSE, sources |-> <<>>]

\* AppError with `From<E: StdError>`: its source is the converted error.
AppErrorFrom(e) ==
  [name |-> "AppError", message |-> Some("application error"), std |-> TRUE,
   sources |-> <<e.message[1]>> \o e.sources]

\* Errors a fallible operation returns raw.
RawErrors == {IoNotFound, ConfigError, QuotaError, OpaqueError}

\* Error::message of the blanket impl and of the marker type: the accessor.
message(e) == e.message

\* Error::as_std_error followed by the walk of source(): the Display text of
\* every link, nearest first; empty when as_std_error() is None.
source_chain(e) == IF e.std THEN e.sources ELSE <<>>

\* ------------------------------------------------------------ report context

\* ReportItem
Message(text) == [tag |-> "Message", text |-> text]
ErrorSlot == [tag |-> "Error", text |-> ""]
Discarded == [tag |-> "Discarded", text |-> ""]

\* One element of ReportContext::items.
Item(loc, item) == [loc |-> loc, item |-> item]

\* Backtrace::capture() and SpanTrace::capture(): whether anything is captured
\* depends on the environment; the content is opaque and tied to the capture.
BacktraceStatuses == {"Captured", "Disabled"}
SpanTraceStatuses == {"CAPTURED", "EMPTY"}

\* capture() without #[track_caller]: the location is a line of the crate itself.
capture_untracked(loc, bt, st) ==
  [backtrace |-> [status |-> bt, frames |-> loc],
   span_trace |-> [status |-> st, spans |-> loc],
   items |-> <<Item("src/lib.rs:134:25", ErrorSlot)>>,
   error_item |-> 0]

\* ReportContext::capture at call site `loc`, with the capture outcomes bt, st.
capture(loc, bt, st) ==
  [backtrace |-> [status |-> bt, frames |-> loc],
   span_trace |-> [status |-> st, spans |-> loc],
   items |-> <<Item(loc, ErrorSlot)>>,
   error_item |-> 0]

\* Report::new
Report_new(error, context) == [error |-> error, context |-> context]

\* From<E> for Report<E> and Reportify::report for E.
report(error, loc, bt, st) == Report_new(error, capture(loc, bt, st))


\* ------------------------------------------------------------ mapping functions
\* The closures handed to propagate_map and the conversions used by propagate:
\*   "identity"  |e| e, and the reflexive `Into` of propagate::<E>()
\*   "wrap"      |e| AppError::from(e), and `Into<AppError>` of propagate::<AppError>()
\*   "whatever"  |_| Self::new() of Whatever::propagate
Maps == {"identity", "wrap", "whatever"}

\* The conversions `Self::Error: Into<F>` offers to propagate().
Conversions == {"identity", "wrap"}

\* Whether the closure type-checks on e (AppError: From<E> needs E: StdError
\* with a Display text; there is no From<AppError> for AppError besides identity).
MapApplicable(map, e) ==
  map = "wrap" => (e.std /\ e.message # None /\ e.name # "AppError")

ApplyMap(map, e) ==
  CASE map = "identity" -> e
    [] map = "wrap" -> AppErrorFrom(e)
    [] map = "whatever" -> WhateverNew

\* --------------------------------------------------------------- re-typing

\* The old message dropped instead of materialized.
materialize_drop(error) == Discarded

\* The item the live error's slot is rewritten to before the error is mapped.
materialize(error) ==
  IF message(error) # None THEN Message(message(error)[1]) ELSE Discarded

\* propagate_map that forgets `context.error_item = context.items.len()`.
propagate_map_stale_index(r, map, loc) ==
  LET context == r.context
      rewritten == [context.items EXCEPT ![context.error_item + 1].item =
                      IF message(r.error) # None THEN Message(message(r.error)[1])
                      ELSE Discarded]
  IN  [error |-> ApplyMap(map, r.error),
       context |-> [context EXCEPT !.items = Append(rewritten, Item(loc, ErrorSlot))]]

\* propagate_map that maps the error first and reads the message afterwards.
propagate_map_late_read(r, map, loc) ==
  LET context == r.context
      mapped == ApplyMap(map, r.error)
      rewritten == [context.items EXCEPT ![context.error_item + 1].item =
                      IF message(mapped) # None THEN Message(message(mapped)[1])
                      ELSE Discarded]
  IN  [error |-> mapped,
       context |-> [context EXCEPT !.error_item = Len(rewritten),
                                   !.items = Append(rewritten, Item(loc, ErrorSlot))]]

\* propagate_map that leaves the old slot as it is.
propagate_map_keep_slot(r, map, loc) ==
  LET context == r.context
  IN  [error |-> ApplyMap(map, r.error),
       context |-> [context EXCEPT !.error_item = Len(context.items),
                                   !.items = Append(context.items, Item(loc, ErrorSlot))]]

\* propagate_map that captures the traces again at the re-type site.
propagate_map_recapture(r, map, loc) ==
  LET context == r.context
      rewritten == [context.items EXCEPT ![context.error_item + 1].item = materialize(r.error)]
  IN  [error |-> ApplyMap(map, r.error),
       context |-> [context EXCEPT !.error_item = Len(rewritten),
                                   !.items = Append(rewritten, Item(loc, ErrorSlot)),
                                   !.backtrace.frames = loc,
                                   !.span_trace.spans = loc]]

\* Report::propagate_map, called from site `loc`.  `items.get_mut(error_item)`
\* is None exactly when error_item is no position of items; the unwrap() then
\* panics (see PropagateMapPanics).
propagate_map(r, map, loc) ==
  LET context == r.context
      rewritten == [context.items EXCEPT ![context.error_item + 1].item = materialize(r.error)]
  IN  [error |-> ApplyMap(map, r.error),
       context |-> [context EXCEPT !.error_item = Len(rewritten),
                                   !.items = Append(rewritten, Item(loc, ErrorSlot))]]

PropagateMapPanics(r) == ~(r.context.error_item < Len(r.context.items))

\* Whatever::propagate that keeps the old error instead of constructing the marker.
whatever_propagate_keep(r, loc) == propagate_map(r, "identity", loc)

\* Whatever::propagate
whatever_propagate(r, loc) == propagate_map(r, "whatever", loc)

\* ------------------------------------------------------- context attachment
\* A context value is literal text (&str), owned text (String) or a thunk
\* (FnOnce() -> C) producing owned text.
ContextKinds == {"str", "String", "thunk"}
ContextValues == [kind : ContextKinds, text : Texts]

\* attach_to that inserts at the front instead of pushing.
attach_String_front(text, r, loc) ==
  [r EXCEPT !.context.items = <<Item(loc, Message(text))>> \o @]

\* attach_to that overwrites the newest item instead of pushing.
attach_String_overwrite(text, r, loc) ==
  [r EXCEPT !.context.items[Len(r.context.items)] = Item(loc, Message(text))]

\* Context for String: pushes (caller location, Message(self)).
attach_String(text, r, loc) ==
  [r EXCEPT !.context.items = Append(@, Item(loc, Message(text)))]

\* Context for &str (to_owned, then String's) and for F: FnOnce() -> C (call
\* it, then the produced value's attach_to).
attach_to(c, r, loc) ==
  CASE c.kind = "String" -> attach_String(c.text, r, loc)
    [] c.kind = "str" -> attach_String(c.text, r, loc)
    [] c.kind = "thunk" -> attach_String(c.text, r, loc)

\* ---------------------------------------------------------------- rendering
\* Display for Report<E>: the text as the sequence of lines written.

RECURSIVE item_lines_forward(_, _, _)
\* The loop without .rev(): lines of items[1..k], oldest first.
item_lines_forward(items, error, k) ==
  IF k = 0 THEN <<>>
  ELSE LET location == items[k].loc
           item == items[k].item
           line == CASE item.tag = "Message" -> <<location \o ": " \o item.text>>
                     [] item.tag = "Error" ->
                          IF message(error) # None
                          THEN <<location \o ": " \o message(error)[1]>>
                          ELSE <<>>
                     [] item.tag = "Discarded" -> <<>>
       IN  item_lines_forward(items, error, k - 1) \o line

RECURSIVE item_lines_discarded(_, _, _)
\* The loop writing a line for a Discarded item too.
item_lines_discarded(items, error, k) ==
  IF k = 0 THEN <<>>
  ELSE LET location == items[k].loc
           item == items[k].item
           line == CASE item.tag = "Message" -> <<location \o ": " \o item.text>>
                     [] item.tag = "Error" ->
                          IF message(error) # None
                          THEN <<location \o ": " \o message(error)[1]>>
                          ELSE <<>>
                     [] item.tag = "Discarded" -> <<location \o ": ">>
       IN  line \o item_lines_discarded(items, error, k - 1)

RECURSIVE item_lines(_, _, _)
\* The loop over items.iter().rev(): lines of items[1..k], newest first.
item_lines(items, error, k) ==
  IF k = 0 THEN <<>>
  ELSE LET location == items[k].loc
           item == items[k].item
           line == CASE item.tag = "Message" -> <<location \o ": " \o item.text>>
                     [] item.tag = "Error" ->
                          IF message(error) # None
                          THEN <<location \o ": " \o message(error)[1]>>
                          ELSE <<>>
                     [] item.tag = "Discarded" -> <<>>
       IN  line \o item_lines(items, error, k - 1)

\* The message line and the "Caused by" lines.
head_lines(error) ==
  (IF message(error) # None THEN <<message(error)[1]>> ELSE <<>>)
  \o [i \in 1..Len(source_chain(error)) |-> "  Caused by: " \o source_chain(error)[i]]

\* The breadcrumb block: a blank line, then the item lines.
breadcrumb_block(r) ==
  IF r.context.items # <<>>
  THEN <<"">> \o item_lines(r.context.items, r.error, Len(r.context.items))
  ELSE <<>>

backtrace_block(context) ==
  IF context.backtrace.status = "Captured"
  THEN <<"", "Backtrace:", "   0: " \o context.backtrace.frames>>
  ELSE <<>>

span_trace_block(context) ==
  IF context.span_trace.status = "CAPTURED"
  THEN <<"", "Span Trace:", "   0: " \o context.span_trace.spans>>
  ELSE <<>>

\* fmt with the two trace blocks written in the other order.
fmt_spans_first(r) ==
  head_lines(r.error) \o breadcrumb_block(r)
  \o span_trace_block(r.context) \o backtrace_block(r.context)

fmt(r) ==
  head_lines(r.error) \o breadcrumb_block(r)
  \o backtrace_block(r.context) \o span_trace_block(r.context)


\* ------------------------------------------------------------------ results
\* A Result<T, E> (ty "Raw": the failure is a raw error value) or a
\* Result<T, Report<E>> (ty "Report").
Ok(ty, value) == [tag |-> "Ok", ty |-> ty, value |-> value]
ErrRaw(error) == [tag |-> "Err", ty |-> "Raw", error |-> error]
ErrReport(r) == [tag |-> "Err", ty |-> "Report", report |-> r]

IsOk(x) == x.tag = "Ok"
IsRawErr(x) == x.tag = "Err" /\ x.ty = "Raw"
IsReport(x) == x.tag = "Err" /\ x.ty = "Report"

\* The body of a function returning Result<T, Report<TestError>>, still executing.
Running == [tag |-> "Running", ty |-> "Body"]

\* What is left once the result is consumed: the value assert_ok returned, the
\* unit ignore returned, or nothing because the thread panicked.
Returned(value) == [tag |-> "Value", ty |-> "Done", value |-> value]
Dropped == [tag |-> "Unit", ty |-> "Done"]
Panicked == [tag |-> "Panicked", ty |-> "Done"]

\* bail! that attaches its arguments as a message.
bail_recording(args, loc, bt, st) ==
  ErrReport([error |-> WhateverNew,
             context |-> [capture(loc, bt, st) EXCEPT
                            !.items = Append(@, Item(loc, Message(args)))]])

\* bail!(args) expanded at site `loc`: return Err(Report::new(Whatever::new(),
\* ReportContext::capture())).  The macro's arguments are matched and unused.
bail(args, loc, bt, st) == ErrReport(Report_new(WhateverNew, capture(loc, bt, st)))

\* ensure! with the test the wrong way round.
ensure_inverted(cond, args, loc, bt, st) ==
  IF cond THEN bail(args, loc, bt, st) ELSE Running

\* ensure!(cond, args): bail!(args) if !cond, else execution continues.
ensure(cond, args, loc, bt, st) ==
  IF ~cond THEN bail(args, loc, bt, st) ELSE Running

\* Reportify for Result<T, E>::report
result_report(self, loc, bt, st) ==
  IF IsOk(self) THEN Ok("Report", self.value)
  ELSE ErrReport(report(self.error, loc, bt, st))

\* ResultExt for Result<T, Report<E>>
report_context(self, c, loc) ==
  IF IsOk(self) THEN Ok("Report", self.value)
  ELSE ErrReport(attach_to(c, self.report, loc))

report_propagate_map(self, map, loc) ==
  IF IsOk(self) THEN Ok("Report", self.value)
  ELSE ErrReport(propagate_map(self.report, map, loc))

report_propagate(self, conv, loc) == report_propagate_map(self, conv, loc)

\* propagate_with attaching before it re-types.
report_propagate_with_attach_first(self, conv, c, loc) ==
  report_propagate(report_context(self, c, loc), conv, loc)

report_propagate_with(self, conv, c, loc) ==
  report_context(report_propagate(self, conv, loc), c, loc)

report_whatever(self, loc) ==
  IF IsOk(self) THEN Ok("Report", self.value)
  ELSE ErrReport(whatever_propagate(self.report, loc))

\* ResultExt for Result<T, E>: report() at the caller's site, then the method
\* of Result<T, Report<E>>.
raw_context(self, c, loc, bt, st) ==
  report_context(result_report(self, loc, bt, st), c, loc)

\* propagate_map on a raw error that maps the error and converts the outcome,
\* as `self.map_err(map).report()` would.
raw_propagate_map_direct(self, map, loc, bt, st) ==
  IF IsOk(self) THEN Ok("Report", self.value)
  ELSE ErrReport(report(ApplyMap(map, self.error), loc, bt, st))

raw_propagate_map(self, map, loc, bt, st) ==
  report_propagate_map(result_report(self, loc, bt, st), map, loc)

raw_propagate(self, conv, loc, bt, st) ==
  report_propagate(result_report(self, loc, bt, st), conv, loc)

raw_propagate_with(self, conv, c, loc, bt, st) ==
  report_propagate_with(result_report(self, loc, bt, st), conv, c, loc)

raw_whatever(self, loc, bt, st) ==
  report_whatever(result_report(self, loc, bt, st), loc)

\* ResultExt for Result<T, Report<E>>::assert_ok: the value, or the panic
\* message "BUG: found error but expected value\n\n{report}" as lines.
assert_ok_result(self) == IF IsOk(self) THEN Returned(self.value) ELSE Panicked

\* assert_ok panicking with the fixed text only.
assert_ok_panic_bare(self) ==
  IF IsOk(self) THEN None
  ELSE Some(<<"BUG: found error but expected value">>)

assert_ok_panic(self) ==
  IF IsOk(self) THEN None
  ELSE Some(<<"BUG: found error but expected value", "">> \o fmt(self.report))

\* ignore logging at warning severity.
ignore_events_warn(self) ==
  IF IsReport(self)
  THEN <<[level |-> "WARN", text |-> <<"ignoring error", "">> \o fmt(self.report)]>>
  ELSE <<>>

\* ResultExt for Result<T, Report<E>>::ignore: the events handed to the
\* tracing sink, tracing::error!("ignoring error\n\n{report}").
ignore_events(self) ==
  IF IsReport(self)
  THEN <<[level |-> "ERROR", text |-> <<"ignoring error", "">> \o fmt(self.report)]>>
  ELSE <<>>

\* ResultExt for Result<T, E>::assert_ok and ::ignore
raw_assert_ok_result(self, loc, bt, st) ==
  assert_ok_result(result_report(self, loc, bt, st))

raw_assert_ok_panic(self, loc, bt, st) ==
  assert_ok_panic(result_report(self, loc, bt, st))

raw_ignore_events(self, loc, bt, st) ==
  ignore_events(result_report(self, loc, bt, st))

\* ------------------------------------------------------------------ effects
\* How often a call runs the code that is observable only by being run.

\* report() capturing before it matches on the result.
report_captures_eager(self) == 1

\* capture() calls of Reportify::report on a Result<T, E>: one in the Err arm.
report_captures(self) == IF IsOk(self) THEN 0 ELSE 1

\* Calls of the mapping function by propagate_map on a result: one in the Err arm.
map_calls(self) == IF IsOk(self) THEN 0 ELSE 1

\* Calls of a thunk by attach_to: `(self)()` once for a thunk.
attach_evals(c) == IF c.kind = "thunk" THEN 1 ELSE 0

\* context(c) calling the thunk before it matches on the result.
context_evals_eager(self, c) == attach_evals(c)

\* Calls of a thunk by context(c) on a result: attach_to runs in the Err arm.
context_evals(self, c) == IF IsOk(self) THEN 0 ELSE attach_evals(c)

\* ------------------------------------------------------------- hash digests
\* si-crypto-hashes.  A string is the sequence of its characters, a raw digest
\* the sequence of its bytes (0..255).

\* Result<T, E> of the parsing and constructing functions.
HOk(value) == [tag |-> "Ok", value |-> value]
HErr(error) == [tag |-> "Err", error |-> error]

\* define_hash_algorithms!: variant, name, aliases, size.
HashAlgorithms == {"Sha256", "Sha512_256", "Sha512"}

name(algorithm) ==
  CASE algorithm = "Sha256" -> <<"s", "h", "a", "2", "5", "6">>
    [] algorithm = "Sha512_256" -> <<"s", "h", "a", "5", "1", "2", "_", "2", "5", "6">>
    [] algorithm = "Sha512" -> <<"s", "h", "a", "5", "1", "2">>

aliases(algorithm) ==
  CASE algorithm = "Sha256" -> {}
    [] algorithm = "Sha512_256" -> {<<"s", "h", "a", "5", "1", "2", "-", "2", "5", "6">>}
    [] algorithm = "Sha512" -> {}

hash_size(algorithm) ==
  CASE algorithm = "Sha256" -> 32
    [] algorithm = "Sha512_256" -> 32
    [] algorithm = "Sha512" -> 64

\* FromStr for HashAlgorithm: the name or an alias, else InvalidAlgorithmError.
HashAlgorithm_from_str(s) ==
  IF \E a \in HashAlgorithms : s = name(a) \/ s \in aliases(a)
  THEN HOk(CHOOSE a \in HashAlgorithms : s = name(a) \/ s \in aliases(a))
  ELSE HErr("InvalidAlgorithmError")

\* hex::encode: two lowercase digits per byte, high nibble first.
HexDigits ==
  <<"0", "1", "2", "3", "4", "5", "6", "7", "8", "9", "a", "b", "c", "d", "e", "f">>
UpperHexDigits ==
  <<"0", "1", "2", "3", "4", "5", "6", "7", "8", "9", "A", "B", "C", "D", "E", "F">>

RECURSIVE encode_with(_, _)
encode_with(digits, raw) ==
  IF raw = <<>> THEN <<>>
  ELSE <<digits[(Head(raw) \div 16) + 1], digits[(Head(raw) % 16) + 1]>>
         \o encode_with(digits, Tail(raw))

hex_encode(raw) == encode_with(HexDigits, raw)

\* hex::decode: digits of either case; an odd length or any other character is
\* an error.
IsHexDigit(c) == \E i \in 1..16 : HexDigits[i] = c \/ UpperHexDigits[i] = c
hex_val(c) == (CHOOSE i \in 1..16 : HexDigits[i] = c \/ UpperHexDigits[i] = c) - 1

hex_decode(s) ==
  IF Len(s) % 2 # 0 THEN HErr("OddLength")
  ELSE IF \E i \in 1..Len(s) : ~IsHexDigit(s[i]) THEN HErr("InvalidHexCharacter")
  ELSE HOk([i \in 1..(Len(s) \div 2) |-> 16 * hex_val(s[2 * i - 1]) + hex_val(s[2 * i])])

Delimiters == {":", "_"}

\* Splitting at the first delimiter instead of the last.
split_once_first(s) ==
  LET at == {i \in 1..Len(s) : s[i] \in Delimiters}
  IN  IF at = {} THEN None
      ELSE LET i == CHOOSE i \in at : \A j \in at : i <= j
           IN  Some(<<SubSeq(s, 1, i - 1), SubSeq(s, i + 1, Len(s))>>)

\* str::rsplit_once([':', '_']): split at the last delimiter.
rsplit_once(s) ==
  LET at == {i \in 1..Len(s) : s[i] \in Delimiters}
  IN  IF at = {} THEN None
      ELSE LET i == CHOOSE i \in at : \A j \in at : j <= i
           IN  Some(<<SubSeq(s, 1, i - 1), SubSeq(s, i + 1, Len(s))>>)

\* HashDigest::new_unchecked and HashDigest::new
new_unchecked(algorithm, raw) == [algorithm |-> algorithm, raw |-> raw]

HashDigest_new(algorithm, raw) ==
  IF Len(raw) # hash_size(algorithm) THEN HErr("invalid digest size")
  ELSE HOk(new_unchecked(algorithm, raw))

raw_hex_string(digest) == hex_encode(digest.raw)

\* Display for HashDigest; `legacy` is cfg!(feature = "legacy") of the build.
to_string(legacy, digest) ==
  (IF digest.algorithm = "Sha512_256" /\ legacy
   THEN <<"s", "h", "a", "5", "1", "2", "-", "2", "5", "6">>
   ELSE name(digest.algorithm))
  \o (IF legacy THEN <<":">> ELSE <<"_">>)
  \o raw_hex_string(digest)

\* FromStr for HashDigest
from_str(s) ==
  LET split == rsplit_once(s)
  IN  IF split = None THEN HErr("missing delimiter, expected ':' or '_'")
      ELSE LET algorithm == HashAlgorithm_from_str(split[1][1])
               raw == hex_decode(split[1][2])
           IN  IF algorithm.tag = "Err" THEN HErr("invalid hash algorithm")
               ELSE IF raw.tag = "Err" THEN HErr("digest is not a hex string")
               ELSE IF Len(raw.value) # hash_size(algorithm.value)
                    THEN HErr("invalid digest size")
               ELSE HOk([algorithm |-> algorithm.value, raw |-> raw.value])

\* -------------------------------------------------------------------- state
VARIABLES
  res,        \* the Result value the call chain currently holds
  out,        \* the lines Display::fmt wrote in the step just taken (else empty)
  last,       \* the step just taken: operation, call site, arguments, res before it
  nRetype,    \* re-types applied since the report's context was captured
  nAttach,    \* attachments applied since the report's context was captured
  finalized,  \* the messages re-types had to keep: slot position, location, text
  base,       \* res as it was before the current run of context() calls
  run,        \* the (location, text) pairs attached since base, in order
  captures,   \* ReportContext::capture() calls made so far
  fx,         \* mapping-function calls and thunk calls of the step just taken
  panic,      \* the panic message, once the thread has panicked
  log,        \* the events handed to the tracing sink so far
  hash        \* the digest session: build feature, digest, string held, parse result

reportVars == <<res, out, last, nRetype, nAttach, finalized, base, run,
                captures, fx, panic, log>>

vars == <<reportVars, hash>>

\* No digest session.
NoHash ==
  [legacy |-> FALSE, digest |-> None, str |-> None, origin |-> "",
   parsed |-> None, printed |-> None]

NoContext == [kind |-> "", text |-> ""]

Step(op, loc, c, map) ==
  [op |-> op, loc |-> loc, c |-> c, map |-> map, cond |-> TRUE, pre |-> res]

NoEffects == [maps |-> 0, evals |-> 0]

\* The live error of a failing result.
ErrorOf(x) == IF IsRawErr(x) THEN x.error ELSE x.report.error

\* Items the result's context holds (a raw error has no context yet).
ItemCount(x) == IF IsReport(x) THEN Len(x.report.context.items) ELSE 0

\* Room for n more items, after the capture a raw error still needs.
Room(x, n) ==
  \/ IsOk(x)
  \/ IsRawErr(x) /\ 1 + n <= MaxItems
  \/ IsReport(x) /\ ItemCount(x) + n <= MaxItems

\* A fallible operation has returned (success, or a raw error), or the body
\* of a function that reports with the marker type starts executing.
Init ==
  /\ res \in {Ok("Raw", v) : v \in Values} \cup {ErrRaw(e) : e \in RawErrors}
              \cup {Running}
  /\ out = <<>>
  /\ last = [op |-> "call", loc |-> "", c |-> NoContext, map |-> "", cond |-> TRUE,
             pre |-> res]
  /\ nRetype = 0
  /\ nAttach = 0
  /\ finalized = {}
  /\ base = res
  /\ run = <<>>
  /\ captures = 0
  /\ fx = NoEffects
  /\ panic = None
  /\ log = <<>>
  /\ hash = NoHash

\* The message a re-type at `loc` of the current failure has to keep: that of
\* the live error, at the slot the live error occupies (for a raw error the
\* slot is the one its capture at `loc` opens).
Owed(loc) ==
  IF IsOk(res) \/ message(ErrorOf(res)) = None THEN {}
  ELSE IF IsRawErr(res)
       THEN {[pos |-> 0, loc |-> loc, text |-> message(res.error)[1]]}
       ELSE LET context == res.report.context
            IN  {[pos |-> context.error_item,
                  loc |-> context.items[context.error_item + 1].loc,
                  text |-> message(res.report.error)[1]]}

\* Bookkeeping of a step that is not an attachment to an existing report.
Record(op, loc, c, map, attached, retyped) ==
  /\ last' = Step(op, loc, c, map)
  /\ out' = <<>>
  /\ nAttach' = IF IsOk(res) THEN nAttach ELSE nAttach + attached
  /\ nRetype' = IF IsOk(res) THEN nRetype ELSE nRetype + retyped
  /\ finalized' = IF retyped = 1 THEN finalized \cup Owed(loc) ELSE finalized
  /\ base' = res'
  /\ run' = <<>>
  /\ captures' = IF res.ty = "Raw" THEN captures + report_captures(res) ELSE captures
  /\ fx' = [maps |-> IF retyped = 1 THEN map_calls(res) ELSE 0,
            evals |-> IF attached = 1 THEN context_evals(res, c) ELSE 0]
  /\ UNCHANGED <<panic, log, hash>>

\* `?` on a Result<T, E> inside a function returning Report<E>: From::from.
From(loc, bt, st) ==
  /\ IsRawErr(res)
  /\ res' = ErrReport(report(res.error, loc, bt, st))
  /\ Record("from", loc, NoContext, "", 0, 0)

\* result.report() on a Result<T, E>
Report(loc, bt, st) ==
  /\ res.ty = "Raw"
  /\ res' = result_report(res, loc, bt, st)
  /\ Record("report", loc, NoContext, "", 0, 0)

\* ---- ResultExt for Result<T, E>
RawContext(c, loc, bt, st) ==
  /\ res.ty = "Raw" /\ Room(res, 1)
  /\ res' = raw_context(res, c, loc, bt, st)
  /\ Record("context", loc, c, "", 1, 0)

RawPropagateMap(map, loc, bt, st) ==
  /\ res.ty = "Raw" /\ Room(res, 1)
  /\ ~IsOk(res) => MapApplicable(map, ErrorOf(res))
  /\ res' = raw_propagate_map(res, map, loc, bt, st)
  /\ Record("propagate_map", loc, NoContext, map, 0, 1)

RawPropagate(conv, loc, bt, st) ==
  /\ res.ty = "Raw" /\ Room(res, 1)
  /\ ~IsOk(res) => MapApplicable(conv, ErrorOf(res))
  /\ res' = raw_propagate(res, conv, loc, bt, st)
  /\ Record("propagate", loc, NoContext, conv, 0, 1)

RawPropagateWith(conv, c, loc, bt, st) ==
  /\ res.ty = "Raw" /\ Room(res, 2)
  /\ ~IsOk(res) => MapApplicable(conv, ErrorOf(res))
  /\ res' = raw_propagate_with(res, conv, c, loc, bt, st)
  /\ Record("propagate_with", loc, c, conv, 1, 1)

RawWhatever(loc, bt, st) ==
  /\ res.ty = "Raw" /\ Room(res, 1)
  /\ res' = raw_whatever(res, loc, bt, st)
  /\ Record("whatever", loc, NoContext, "whatever", 0, 1)

\* ---- ResultExt for Result<T, Report<E>>
Context(c, loc) ==
  /\ res.ty = "Report" /\ Room(res, 1)
  /\ res' = report_context(res, c, loc)
  /\ last' = Step("context", loc, c, "")
  /\ out' = <<>>
  /\ nAttach' = IF IsOk(res) THEN nAttach ELSE nAttach + 1
  /\ run' = IF IsOk(res) THEN run ELSE Append(run, [loc |-> loc, text |-> c.text])
  /\ fx' = [maps |-> 0, evals |-> context_evals(res, c)]
  /\ UNCHANGED <<nRetype, finalized, base, captures, panic, log, hash>>

PropagateMap(map, loc) ==
  /\ res.ty = "Report" /\ Room(res, 1)
  /\ ~IsOk(res) => MapApplicable(map, ErrorOf(res))
  /\ res' = report_propagate_map(res, map, loc)
  /\ Record("propagate_map", loc, NoContext, map, 0, 1)

Propagate(conv, loc) ==
  /\ res.ty = "Report" /\ Room(res, 1)
  /\ ~IsOk(res) => MapApplicable(conv, ErrorOf(res))
  /\ res' = report_propagate(res, conv, loc)
  /\ Record("propagate", loc, NoContext, conv, 0, 1)

PropagateWith(conv, c, loc) ==
  /\ res.ty = "Report" /\ Room(res, 2)
  /\ ~IsOk(res) => MapApplicable(conv, ErrorOf(res))
  /\ res' = report_propagate_with(res, conv, c, loc)
  /\ Record("propagate_with", loc, c, conv, 1, 1)

Whatever(loc) ==
  /\ res.ty = "Report" /\ Room(res, 1)
  /\ res' = report_whatever(res, loc)
  /\ Record("whatever", loc, NoContext, "whatever", 0, 1)

\* format!("{report}"): Display::fmt borrows the report and writes its text.
Fmt ==
  /\ IsReport(res)
  /\ out' = fmt(res.report)
  /\ last' = Step("fmt", "", NoContext, "")
  /\ fx' = NoEffects
  /\ UNCHANGED <<res, nRetype, nAttach, finalized, base, run, captures, panic, log, hash>>

\* ---- the early-exit macros, in a body that is still executing
Args(text) == [kind |-> "args", text |-> text]

Bail(args, loc, bt, st) ==
  /\ res = Running
  /\ res' = bail(args, loc, bt, st)
  /\ last' = Step("bail", loc, Args(args), "")
  /\ out' = <<>>
  /\ base' = res'
  /\ captures' = captures + 1
  /\ fx' = NoEffects
  /\ UNCHANGED <<nRetype, nAttach, finalized, run, panic, log, hash>>

Ensure(cond, args, loc, bt, st) ==
  /\ res = Running
  /\ res' = ensure(cond, args, loc, bt, st)
  /\ last' = [Step("ensure", loc, Args(args), "") EXCEPT !.cond = cond]
  /\ out' = <<>>
  /\ base' = res'
  /\ captures' = IF ~cond THEN captures + 1 ELSE captures
  /\ fx' = NoEffects
  /\ UNCHANGED <<nRetype, nAttach, finalized, run, panic, log, hash>>

\* The body ends with Ok(value).
Return(value) ==
  /\ res = Running
  /\ res' = Ok("Report", value)
  /\ last' = Step("return", "", NoContext, "")
  /\ out' = <<>>
  /\ base' = res'
  /\ fx' = NoEffects
  /\ UNCHANGED <<nRetype, nAttach, finalized, run, captures, panic, log, hash>>

\* ---- the terminal combinators: the result is consumed, and with it the
\* report whose entries `finalized` and `run` describe
Consumed(op, loc) ==
  /\ last' = Step(op, loc, NoContext, "")
  /\ out' = <<>>
  /\ base' = res'
  /\ fx' = NoEffects
  /\ captures' = IF res.ty = "Raw" THEN captures + report_captures(res) ELSE captures
  /\ finalized' = {}
  /\ run' = <<>>
  /\ UNCHANGED <<nRetype, nAttach, hash>>

RawAssertOk(loc, bt, st) ==
  /\ res.ty = "Raw"
  /\ res' = raw_assert_ok_result(res, loc, bt, st)
  /\ panic' = raw_assert_ok_panic(res, loc, bt, st)
  /\ Consumed("assert_ok", loc)
  /\ UNCHANGED log

AssertOk(loc) ==
  /\ res.ty = "Report"
  /\ res' = assert_ok_result(res)
  /\ panic' = assert_ok_panic(res)
  /\ Consumed("assert_ok", loc)
  /\ UNCHANGED log

RawIgnore(loc, bt, st) ==
  /\ res.ty = "Raw"
  /\ res' = Dropped
  /\ log' = log \o raw_ignore_events(res, loc, bt, st)
  /\ Consumed("ignore", loc)
  /\ UNCHANGED panic

Ignore(loc) ==
  /\ res.ty = "Report"
  /\ res' = Dropped
  /\ log' = log \o ignore_events(res)
  /\ Consumed("ignore", loc)
  /\ UNCHANGED panic

Next ==
  \/ \E loc \in Locations, bt \in BacktraceStatuses, st \in SpanTraceStatuses :
       \/ From(loc, bt, st)
       \/ Report(loc, bt, st)
       \/ RawWhatever(loc, bt, st)
       \/ \E c \in ContextValues : RawContext(c, loc, bt, st)
       \/ \E map \in Maps : RawPropagateMap(map, loc, bt, st)
       \/ \E conv \in Conversions : RawPropagate(conv, loc, bt, st)
       \/ \E conv \in Conversions, c \in ContextValues :
            RawPropagateWith(conv, c, loc, bt, st)
       \/ RawAssertOk(loc, bt, st)
       \/ RawIgnore(loc, bt, st)
       \/ \E args \in Texts : Bail(args, loc, bt, st)
       \/ \E cond \in BOOLEAN, args \in Texts : Ensure(cond, args, loc, bt, st)
  \/ \E loc \in Locations :
       \/ Whatever(loc)
       \/ \E c \in ContextValues : Context(c, loc)
       \/ \E map \in Maps : PropagateMap(map, loc)
       \/ \E conv \in Conversions : Propagate(conv, loc)
       \/ \E conv \in Conversions, c \in ContextValues : PropagateWith(conv, c, loc)
       \/ AssertOk(loc)
       \/ Ignore(loc)
  \/ \E value \in Values : Return(value)
  \/ Fmt

Spec == Init /\ [][Next]_vars

\* ------------------------------------------------- hash digest specification
\* Raw digests tried: of the sizes around the hash sizes, filled with one byte
\* or with a running pattern.
SampleBytes == {0, 10, 171, 255}
RawLengths == {0, 31, 32, 64}
Offsets == {0, 5}
RawDigests ==
  {[i \in 1..n |-> b] : n \in RawLengths, b \in SampleBytes}
    \cup {[i \in 1..n |-> (37 * i + k) % 256] : n \in RawLengths, k \in Offsets}

\* Strings handed to from_str: an algorithm part, a delimiter or none, a digest
\* part in lowercase hex, uppercase hex or no hex at all.
AlgorithmTexts ==
  {name(a) : a \in HashAlgorithms} \cup UNION {aliases(a) : a \in HashAlgorithms}
    \cup {<<"m", "d", "5">>}
DigestTexts ==
  {hex_encode(raw) : raw \in RawDigests}
    \cup {encode_with(UpperHexDigits, [i \in 1..n |-> 171]) : n \in RawLengths}
    \cup {<<"x", "y">>}
InputStrings ==
  {a \o d \o t : a \in AlgorithmTexts, d \in {<<"_">>, <<":">>, <<>>}, t \in DigestTexts}

\* A build of the crate, with or without the `legacy` feature; nothing done yet.
HashInit ==
  /\ hash \in {[NoHash EXCEPT !.legacy = legacy] : legacy \in BOOLEAN}
  /\ res = Running
  /\ out = <<>>
  /\ last = [op |-> "call", loc |-> "", c |-> NoContext, map |-> "", cond |-> TRUE,
             pre |-> res]
  /\ nRetype = 0
  /\ nAttach = 0
  /\ finalized = {}
  /\ base = res
  /\ run = <<>>
  /\ captures = 0
  /\ fx = NoEffects
  /\ panic = None
  /\ log = <<>>

\* HashDigest::new(algorithm, raw)
HashDigestNew(algorithm, raw) ==
  /\ hash.digest = None /\ hash.str = None
  /\ hash' = [hash EXCEPT !.digest = Some(HashDigest_new(algorithm, raw))]
  /\ UNCHANGED reportVars

\* digest.to_string() of a digest that was constructed.
DigestToString ==
  /\ hash.digest # None /\ hash.digest[1].tag = "Ok"
  /\ hash.str = None
  /\ hash' = [hash EXCEPT !.str = Some(to_string(hash.legacy, hash.digest[1].value)),
                          !.origin = "to_string"]
  /\ UNCHANGED reportVars

\* A string from outside.
Input(s) ==
  /\ hash.digest = None /\ hash.str = None
  /\ hash' = [hash EXCEPT !.str = Some(s), !.origin = "input"]
  /\ UNCHANGED reportVars

\* HashDigest::from_str of the string held.
FromStr ==
  /\ hash.str # None /\ hash.parsed = None
  /\ hash' = [hash EXCEPT !.parsed = Some(from_str(hash.str[1]))]
  /\ UNCHANGED reportVars

\* to_string() of the digest that was parsed.
ParsedToString ==
  /\ hash.parsed # None /\ hash.parsed[1].tag = "Ok"
  /\ hash.printed = None
  /\ hash' = [hash EXCEPT !.printed = Some(to_string(hash.legacy, hash.parsed[1].value))]
  /\ UNCHANGED reportVars

HashNext ==
  \/ \E algorithm \in HashAlgorithms, raw \in RawDigests : HashDigestNew(algorithm, raw)
  \/ DigestToString
  \/ \E s \in InputStrings : Input(s)
  \/ FromStr
  \/ ParsedToString

HashSpec == HashInit /\ [][HashNext]_vars


\* =================================================================== claims

RetypeOps == {"propagate_map", "propagate", "whatever"}

\* Positions of items holding ErrorSlot.
ErrorSlots(items) == {i \in 1..Len(items) : items[i].item = ErrorSlot}

\* C1: every context reached from capture() by attachments and re-types has a
\* non-empty breadcrumb sequence and a slot index that is a position of it
\* holding ErrorSlot; every re-type strictly increases the slot index.
C1_SlotInvariant ==
  /\ IsReport(res) =>
       LET context == res.report.context
       IN  /\ context.items # <<>>
           /\ ~PropagateMapPanics(res.report)
           /\ context.error_item + 1 \in 1..Len(context.items)
           /\ context.items[context.error_item + 1].item = ErrorSlot
  /\ (IsReport(res) /\ last.op \in RetypeOps \cup {"propagate_with"}) =>
       IF IsReport(last.pre)
       THEN res.report.context.error_item > last.pre.report.context.error_item
       ELSE res.report.context.error_item > 0

\* A re-type applied to a report that already carries an attachment.
C1_Witness ==
  /\ IsReport(res) /\ IsReport(last.pre)
  /\ last.op \in RetypeOps
  /\ nAttach > 0
  /\ res.report.context.error_item = 2

\* C2: one re-type with f rewrites the entry at the previous slot index to
\* Message(old error's message) or Discarded, appends (caller location,
\* ErrorSlot), moves the slot index to it, adds exactly one entry and leaves
\* the report holding f(old error).
C2_RetypeOnce ==
  (IsReport(res) /\ IsReport(last.pre) /\ last.op \in RetypeOps) =>
    LET old == last.pre.report
        new == res.report
        i == old.context.error_item + 1
        n == Len(old.context.items)
    IN  /\ Len(new.context.items) = n + 1
        /\ new.context.items[i].loc = old.context.items[i].loc
        /\ new.context.items[i].item =
             IF old.error.message # None THEN Message(old.error.message[1])
             ELSE Discarded
        /\ new.context.items[n + 1] = Item(last.loc, ErrorSlot)
        /\ new.context.error_item = n
        /\ new.error = ApplyMap(last.map, old.error)

\* A re-type whose mapping function changes the message: the old message is
\* the one recorded.
C2_Witness ==
  /\ IsReport(res) /\ IsReport(last.pre)
  /\ last.op = "propagate_map" /\ last.map = "wrap"
  /\ last.pre.report.error = ConfigError
  /\ res.report.error.name = "AppError"

\* C3: the message of an error that was re-typed stays in the trail: the entry
\* at the former slot index is Message(m) at its original location right after
\* the re-type and after every later attachment or re-type.
C3_MessageKept ==
  \A f \in finalized :
    /\ IsReport(res)
    /\ f.pos < Len(res.report.context.items)
    /\ res.report.context.items[f.pos + 1] = Item(f.loc, Message(f.text))

\* A kept message still in place after a later attachment.
C3_Witness ==
  /\ IsReport(res)
  /\ Cardinality(finalized) >= 1
  /\ nAttach >= 1
  /\ \E f \in finalized : f.pos + 2 < Len(res.report.context.items)

\* C4: n context messages attached to an existing report append exactly n
\* entries (caller location, Message(text)) in attachment order and leave the
\* slot index, the earlier entries and the error value unchanged.
C4_AttachFrame ==
  (IsReport(res) /\ IsReport(base)) =>
    /\ res.report.context.items =
         base.report.context.items
         \o [k \in 1..Len(run) |-> Item(run[k].loc, Message(run[k].text))]
    /\ res.report.context.error_item = base.report.context.error_item
    /\ res.report.error = base.report.error

\* Two different messages attached one after the other to a report.
C4_Witness ==
  /\ IsReport(res) /\ IsReport(base)
  /\ Len(run) = 2
  /\ run[1].text = "step 1" /\ run[2].text = "step 2"
  /\ run[1].loc # run[2].loc

\* C5: converting a raw error e (From, or report()) yields a report holding e
\* whose context has exactly one entry, ErrorSlot at the conversion call site,
\* and slot index 0.
C5_Conversion ==
  (last.op \in {"from", "report"} /\ IsRawErr(last.pre)) =>
    /\ IsReport(res)
    /\ res.report.error = last.pre.error
    /\ res.report.context.items = <<Item(last.loc, ErrorSlot)>>
    /\ res.report.context.error_item = 0

C5_Witness ==
  /\ last.op = "from" /\ IsRawErr(last.pre)
  /\ IsReport(res) /\ res.report.error = QuotaError

\* C6: k re-types of a freshly converted report, without attachments, leave
\* exactly k + 1 breadcrumb entries, and no context ever holds more than one
\* ErrorSlot.
C6_RetypeCount ==
  IsReport(res) =>
    /\ Cardinality(ErrorSlots(res.report.context.items)) <= 1
    /\ nAttach = 0 => Len(res.report.context.items) = nRetype + 1

C6_Witness ==
  /\ IsReport(res)
  /\ nAttach = 0 /\ nRetype = 2
  /\ Len(res.report.context.items) = 3


\* ---- what the rendered text is measured against

\* Lines before the breadcrumb block: the message line and one per cause.
HeadCount(e) == Len(e.message) + (IF e.std THEN Len(e.sources) ELSE 0)

\* Lines of the "Backtrace:" and "Span Trace:" blocks.
TrailCount(context) ==
  (IF context.backtrace.status = "Captured" THEN 3 ELSE 0)
  + (IF context.span_trace.status = "CAPTURED" THEN 3 ELSE 0)

\* Positions of the items that have a line: Message items, and the ErrorSlot
\* when the current error has a message.
Rendering(r) ==
  {i \in 1..Len(r.context.items) :
     \/ r.context.items[i].item.tag = "Message"
     \/ r.context.items[i].item = ErrorSlot /\ r.error.message # None}

\* The line of item i, for i in Rendering(r).
LineOf(r, i) ==
  r.context.items[i].loc \o ": "
  \o (IF r.context.items[i].item.tag = "Message"
      THEN r.context.items[i].item.text ELSE r.error.message[1])

\* A report value whose breadcrumb sequence is empty.
EmptyTrail(e, bt, st) ==
  [error |-> e,
   context |-> [backtrace |-> [status |-> bt, frames |-> "src/main.rs:10:5"],
                span_trace |-> [status |-> st, spans |-> "src/main.rs:10:5"],
                items |-> <<>>, error_item |-> 0]]

\* C7: the breadcrumb lines are written newest first (for "step 1" then
\* "step 2" attached to a domain-error report: "step 2", "step 1", then the
\* ErrorSlot line), and a report with no breadcrumbs gets no breadcrumb block:
\* no blank separator line and no breadcrumb line.
C7_ReverseOrder ==
  /\ last.op = "fmt" =>
       LET r == res.report
           H == HeadCount(r.error)
           R == Rendering(r)
       IN  /\ Len(out) >= H + 1 + Cardinality(R)
           /\ \A i \in R :
                out[H + 1 + Cardinality({j \in R : j >= i})] = LineOf(r, i)
           /\ \A i, j \in R :
                i < j => \E a, b \in 1..Len(out) :
                           a < b /\ out[a] = LineOf(r, j) /\ out[b] = LineOf(r, i)
  /\ (/\ last.op = "fmt"
      /\ res.report.error.message # None
      /\ Len(res.report.context.items) = 3
      /\ res.report.context.items[1].item = ErrorSlot
      /\ res.report.context.items[2].item = Message("step 1")
      /\ res.report.context.items[3].item = Message("step 2")) =>
       LET r == res.report
           H == HeadCount(r.error)
       IN  SubSeq(out, H + 1, H + 4) =
             << "",
                r.context.items[3].loc \o ": step 2",
                r.context.items[2].loc \o ": step 1",
                r.context.items[1].loc \o ": " \o r.error.message[1] >>
  /\ \A e \in RawErrors \cup {WhateverNew} :
       \A bt \in BacktraceStatuses, st \in SpanTraceStatuses :
         LET text == fmt(EmptyTrail(e, bt, st))
         IN  /\ Len(text) = HeadCount(e) + TrailCount(EmptyTrail(e, bt, st).context)
             /\ (bt = "Disabled" /\ st = "EMPTY") => \A k \in 1..Len(text) : text[k] # ""

\* Scenario C rendered: attached at two different sites.
C7_Witness ==
  /\ last.op = "fmt"
  /\ res.report.error = IoNotFound
  /\ Len(res.report.context.items) = 3
  /\ res.report.context.items[1].item = ErrorSlot
  /\ res.report.context.items[2] = Item("src/main.rs:10:5", Message("step 1"))
  /\ res.report.context.items[3] = Item("src/app.rs:27:14", Message("step 2"))
  /\ Len(out) >= 5

\* C8: in the breadcrumb block a Message(text) entry is the line
\* "<location>: <text>", the ErrorSlot entry is "<location>: <message>" with
\* the current error's message and has no line when there is none, a
\* Discarded entry has no line; the block has as many lines as there are
\* Message entries, plus one if the current error has a message.
C8_ItemLines ==
  last.op = "fmt" =>
    LET r == res.report
        items == r.context.items
        H == HeadCount(r.error)
        T == TrailCount(r.context)
        block == SubSeq(out, H + 2, Len(out) - T)
        messages == {i \in 1..Len(items) : items[i].item.tag = "Message"}
        slots == ErrorSlots(items)
    IN  /\ Len(out) >= H + 1 + T
        /\ Len(block) = Cardinality(messages) + (IF r.error.message # None THEN 1 ELSE 0)
        /\ {block[k] : k \in 1..Len(block)} =
             {items[i].loc \o ": " \o items[i].item.text : i \in messages}
             \cup (IF r.error.message # None
                   THEN {items[i].loc \o ": " \o r.error.message[1] : i \in slots}
                   ELSE {})

\* A rendering with a Discarded entry, a Message entry and a message-less
\* current error: a single breadcrumb line.
C8_Witness ==
  /\ last.op = "fmt"
  /\ res.report.error.message = None
  /\ \E i \in 1..Len(res.report.context.items) :
       res.report.context.items[i].item = Discarded
  /\ \E i \in 1..Len(res.report.context.items) :
       res.report.context.items[i].item.tag = "Message"
  /\ Len(out) = HeadCount(res.report.error) + 2 + TrailCount(res.report.context)


\* C9: the text starts with the error's message when it has one, then one
\* "Caused by: <message>" line per link of the cause chain, nearest cause
\* first; then the breadcrumb block; then the "Backtrace:" block when a
\* backtrace was captured; then the "Span Trace:" block when a span trace was.
C9_Layout ==
  last.op = "fmt" =>
    LET r == res.report
        e == r.error
        chain == IF e.std THEN e.sources ELSE <<>>
        o == Len(e.message)
        H == o + Len(chain)
        T == TrailCount(r.context)
        n == Len(out)
        bt == r.context.backtrace.status = "Captured"
        st == r.context.span_trace.status = "CAPTURED"
    IN  /\ n >= H + 1 + T
        /\ e.message # None => out[1] = e.message[1]
        /\ \A i \in 1..Len(chain) : out[o + i] = "  Caused by: " \o chain[i]
        /\ out[H + 1] = ""
        /\ \A k \in (H + 2)..(n - T) : \E i \in Rendering(r) : out[k] = LineOf(r, i)
        /\ bt => SubSeq(out, n - T + 1, n - T + 3) =
                   <<"", "Backtrace:", "   0: " \o r.context.backtrace.frames>>
        /\ st => SubSeq(out, n - 2, n) =
                   <<"", "Span Trace:", "   0: " \o r.context.span_trace.spans>>

\* A rendering with a message, a cause chain of two links, breadcrumbs and
\* both trace blocks.
C9_Witness ==
  /\ last.op = "fmt"
  /\ res.report.error.message # None
  /\ res.report.error.std /\ Len(res.report.error.sources) >= 2
  /\ res.report.context.backtrace.status = "Captured"
  /\ res.report.context.span_trace.status = "CAPTURED"
  /\ Len(res.report.context.items) >= 2
  /\ Len(out) >= 11

\* C10: whatever() on a failing result holding the raw error "file not found"
\* (no cause) yields a marker-type report with entries
\* [Message("file not found"), ErrorSlot], both at the call site; rendered, it
\* has no message line and no "Caused by" line, and "file not found" at the
\* capture site is its only breadcrumb line.
C10_ScenarioB ==
  /\ (last.op = "whatever" /\ IsRawErr(last.pre) /\ last.pre.error = IoNotFound) =>
       /\ IsReport(res)
       /\ res.report.error = WhateverNew
       /\ res.report.error.message = None
       /\ res.report.context.items =
            <<Item(last.loc, Message("file not found")), Item(last.loc, ErrorSlot)>>
       /\ res.report.context.error_item = 1
  /\ (/\ last.op = "fmt"
      /\ nRetype = 1 /\ nAttach = 0
      /\ res.report.error = WhateverNew
      /\ Len(res.report.context.items) = 2
      /\ res.report.context.items[1].item = Message("file not found")) =>
       /\ Len(out) = 2 + TrailCount(res.report.context)
       /\ SubSeq(out, 1, 2) =
            <<"", res.report.context.items[1].loc \o ": file not found">>
       /\ \A k \in 1..Len(out) : out[k] # "  Caused by: file not found"

\* Scenario B rendered.
C10_Witness ==
  /\ last.op = "fmt"
  /\ nRetype = 1 /\ nAttach = 0
  /\ res.report.error = WhateverNew
  /\ res.report.context.items =
       <<Item("src/app.rs:27:14", Message("file not found")),
         Item("src/app.rs:27:14", ErrorSlot)>>
  /\ out = <<"", "src/app.rs:27:14: file not found">>


\* The trace blocks a context's rendering ends with.
TraceLines(context) ==
  (IF context.backtrace.status = "Captured"
   THEN <<"", "Backtrace:", "   0: " \o context.backtrace.frames>> ELSE <<>>)
  \o (IF context.span_trace.status = "CAPTURED"
      THEN <<"", "Span Trace:", "   0: " \o context.span_trace.spans>> ELSE <<>>)

\* C11: bail with no context attached gives a failure holding the marker
\* (no message, no cause) and the single capture-site entry; its rendered text
\* has no message line, no "Caused by" line and no breadcrumb line: the blank
\* separator, then only the trace blocks.
C11_ScenarioA ==
  /\ last.op = "bail" =>
       /\ IsReport(res)
       /\ res.report.error.name = "TestError"
       /\ res.report.error.message = None
       /\ ~res.report.error.std
       /\ res.report.context.items = <<Item(last.loc, ErrorSlot)>>
  /\ (/\ last.op = "fmt"
      /\ res.report.error.name = "TestError"
      /\ nRetype = 0 /\ nAttach = 0) =>
       /\ Len(res.report.context.items) = 1
       /\ out = <<"">> \o TraceLines(res.report.context)

\* The report of a bail, rendered where no trace is captured.
C11_Witness ==
  /\ last.op = "fmt"
  /\ res.report.error.name = "TestError"
  /\ nRetype = 0 /\ nAttach = 0
  /\ res.report.context.items = <<Item("src/main.rs:10:5", ErrorSlot)>>
  /\ out = <<"">>

\* C12: assert_ok on a failing result (raw error or report) panics with a
\* message that contains the rendered report; on Ok(v) it returns v and does
\* not panic.
C12_AssertOk ==
  /\ last.op = "assert_ok" =>
       IF IsOk(last.pre)
       THEN res = Returned(last.pre.value) /\ panic = None
       ELSE /\ res = Panicked
            /\ panic # None
            /\ Len(panic[1]) > 2
            /\ panic[1][1] = "BUG: found error but expected value"
            /\ LET text == SubSeq(panic[1], 3, Len(panic[1]))
               IN  IF IsReport(last.pre)
                   THEN text = fmt(last.pre.report)
                   ELSE \E bt \in BacktraceStatuses, st \in SpanTraceStatuses :
                          text = fmt(report(last.pre.error, last.loc, bt, st))
  /\ panic # None => last.op = "assert_ok"

\* assert_ok panicking on a report that carries a kept message and a slot.
C12_Witness ==
  /\ last.op = "assert_ok"
  /\ IsReport(last.pre)
  /\ Len(last.pre.report.context.items) >= 2
  /\ res = Panicked
  /\ Len(panic[1]) >= 5

\* C13: on Ok(v) every combinator, on raw-error and on report results, returns
\* Ok(v) with the same v, captures no context and applies no mapping function
\* (and calls no thunk).
C13_OkPassThrough ==
  (/\ last.op \in {"context", "propagate", "propagate_map", "propagate_with", "whatever"}
   /\ IsOk(last.pre)) =>
    /\ IsOk(res)
    /\ res.value = last.pre.value
    /\ captures = 0
    /\ fx.maps = 0
    /\ fx.evals = 0

\* propagate_with on a Result<T, E> that is Ok.
C13_Witness ==
  /\ last.op = "propagate_with"
  /\ last.pre = Ok("Raw", "v1")
  /\ res = Ok("Report", "v1")
  /\ last.c.kind = "thunk"


\* C14: a thunk passed as context is called exactly once when the result is a
\* failure, its value becoming the text of the attached Message, and is not
\* called when the result is a success.
C14_ThunkLazy ==
  (last.op \in {"context", "propagate_with"} /\ last.c.kind = "thunk") =>
    IF IsOk(last.pre)
    THEN fx.evals = 0 /\ IsOk(res)
    ELSE /\ fx.evals = 1
         /\ IsReport(res)
         /\ LET items == res.report.context.items
            IN  items[Len(items)] = Item(last.loc, Message(last.c.text))

\* A thunk attached to a failing report result.
C14_Witness ==
  /\ last.op = "context" /\ last.c.kind = "thunk"
  /\ IsReport(last.pre)
  /\ fx.evals = 1
  /\ res.report.context.items[Len(res.report.context.items)].item = Message("step 2")

\* C15: propagate_with(c) on a failing report with n entries and slot index i
\* gives n + 2 entries: entry i finalized, entry n the new ErrorSlot (the new
\* slot index), entry n + 1 Message(c); rendered, c's line comes before the
\* slot's line.
C15_PropagateWith ==
  (last.op = "propagate_with" /\ IsReport(last.pre)) =>
    /\ IsReport(res)
    /\ LET old == last.pre.report
           new == res.report
           n == Len(old.context.items)
           i == old.context.error_item
           H == HeadCount(new.error)
           text == fmt(new)
       IN  /\ Len(new.context.items) = n + 2
           /\ new.context.items[i + 1].item =
                IF old.error.message # None THEN Message(old.error.message[1])
                ELSE Discarded
           /\ new.context.items[n + 1] = Item(last.loc, ErrorSlot)
           /\ new.context.error_item = n
           /\ new.context.items[n + 2] = Item(last.loc, Message(last.c.text))
           /\ Len(text) >= H + 2
           /\ text[H + 1] = ""
           /\ text[H + 2] = last.loc \o ": " \o last.c.text
           /\ new.error.message # None =>
                /\ Len(text) >= H + 3
                /\ text[H + 3] = last.loc \o ": " \o new.error.message[1]

C15_Witness ==
  /\ last.op = "propagate_with" /\ IsReport(last.pre)
  /\ IsReport(res)
  /\ Len(res.report.context.items) = 3
  /\ res.report.error.name = "AppError"
  /\ res.report.context.error_item = 1

\* C16: ignore never panics; on a failing result it hands the sink exactly one
\* event, at error severity, holding the rendered report, and drops the
\* report; on a succeeding result it hands the sink nothing.
C16_Ignore ==
  /\ last.op = "ignore" =>
       /\ res = Dropped
       /\ panic = None
       /\ IF IsOk(last.pre) THEN log = <<>>
          ELSE /\ Len(log) = 1
               /\ log[1].level = "ERROR"
               /\ Len(log[1].text) > 2
               /\ log[1].text[1] = "ignoring error"
               /\ LET text == SubSeq(log[1].text, 3, Len(log[1].text))
                  IN  IF IsReport(last.pre)
                      THEN text = fmt(last.pre.report)
                      ELSE \E bt \in BacktraceStatuses, st \in SpanTraceStatuses :
                             text = fmt(report(last.pre.error, last.loc, bt, st))
  /\ log # <<>> => last.op = "ignore"

\* ignore on a raw error: captured at the call, rendered, logged once.
C16_Witness ==
  /\ last.op = "ignore"
  /\ IsRawErr(last.pre) /\ last.pre.error = ConfigError
  /\ Len(log) = 1
  /\ res = Dropped

\* C17: ensure! bails exactly when its condition is false: with a true
\* condition the body goes on and nothing is captured; with a false one the
\* function returns a failure holding a fresh marker and a fresh context (one
\* ErrorSlot entry, slot index 0) located at the macro's call site.
C17_Ensure ==
  last.op = "ensure" =>
    IF last.cond
    THEN res = Running /\ captures = 0
    ELSE /\ IsReport(res)
         /\ res.report.error.name = "TestError"
         /\ res.report.error.message = None
         /\ res.report.context.items = <<Item(last.loc, ErrorSlot)>>
         /\ res.report.context.error_item = 0
         /\ res.report.context.backtrace.frames = last.loc
         /\ captures = 1

C17_Witness ==
  /\ last.op = "ensure" /\ ~last.cond
  /\ IsReport(res)
  /\ last.pre = Running
  /\ last.loc = "src/app.rs:27:14"


\* C19: the backtrace and the span trace are captured once, by capture(), and
\* stay those of the capture site: an attachment or a re-type of a report
\* captures nothing and hands on the backtrace and span trace it was given.
C19_TracesOnce ==
  /\ captures <= 1
  /\ IsReport(res) =>
       /\ captures = 1
       /\ res.report.context.backtrace.frames = res.report.context.items[1].loc
       /\ res.report.context.span_trace.spans = res.report.context.items[1].loc
  /\ (IsReport(last.pre) /\ IsReport(res)) =>
       /\ res.report.context.backtrace = last.pre.report.context.backtrace
       /\ res.report.context.span_trace = last.pre.report.context.span_trace

\* A report re-typed and attached to away from where it was captured.
C19_Witness ==
  /\ IsReport(res) /\ IsReport(last.pre)
  /\ last.op \in RetypeOps
  /\ nAttach >= 1
  /\ last.loc # res.report.context.backtrace.frames
  /\ res.report.context.backtrace.status = "Captured"
  /\ res.report.context.span_trace.status = "CAPTURED"

\* C20: after a attachments and r re-types of a freshly captured report the
\* breadcrumb sequence has 1 + a + r entries, its only ErrorSlot is at the
\* slot index, every later entry is a Message, every earlier one a Message or
\* Discarded, and no step shortens the sequence.
C20_Shape ==
  /\ IsReport(res) =>
       LET items == res.report.context.items
           slot == res.report.context.error_item + 1
       IN  /\ Len(items) = 1 + nAttach + nRetype
           /\ ErrorSlots(items) = {slot}
           /\ \A j \in 1..Len(items) :
                /\ j > slot => items[j].item.tag = "Message"
                /\ j < slot => items[j].item.tag \in {"Message", "Discarded"}
  /\ (IsReport(last.pre) /\ IsReport(res)) =>
       Len(res.report.context.items) >= Len(last.pre.report.context.items)

\* Attachments on both sides of a re-type whose old error had no message.
C20_Witness ==
  /\ IsReport(res)
  /\ nAttach = 1 /\ nRetype = 1
  /\ Len(res.report.context.items) = 3
  /\ res.report.context.error_item = 1
  /\ res.report.context.items[1].item = Discarded
  /\ res.report.context.items[3].item.tag = "Message"


\* The canonical string of algorithm a and raw digest raw: '<name>_<lowercase hex>'.
CanonicalString(a, raw) == name(a) \o <<"_">> \o encode_with(HexDigits, raw)

\* The legacy string: '<legacy name>:<lowercase hex>'.
LegacyString(a, raw) ==
  (IF a = "Sha512_256" THEN <<"s", "h", "a", "5", "1", "2", "-", "2", "5", "6">>
   ELSE name(a))
  \o <<":">> \o encode_with(HexDigits, raw)

\* The (algorithm, raw digest) pairs of matching size.
SizedDigests ==
  {d \in [algorithm : HashAlgorithms, raw : RawDigests] : Len(d.raw) = hash_size(d.algorithm)}

Kept(e) == IF e.message # None THEN Message(e.message[1]) ELSE Discarded

\* The context captured at loc whose breadcrumb sequence and slot index are given.
ContextAt(context, loc, items, slot) ==
  /\ context.items = items
  /\ context.error_item = slot
  /\ context.backtrace.frames = loc
  /\ context.span_trace.spans = loc

\* C21: a combinator applied to a failing result that holds a raw error e gives
\* what converting e at the combinator's call site and then applying the
\* combinator gives: context(c) the entries [ErrorSlot, Message(c)] with slot
\* index 0 and error e; propagate_map / propagate / whatever the entries
\* [Message(message of e) or Discarded, ErrorSlot] with slot index 1 and the
\* mapped error; propagate_with(c) those two followed by Message(c); every
\* entry at the combinator's call site.
C21_RawAsConverted ==
  (IsRawErr(last.pre)
     /\ last.op \in {"context", "propagate_map", "propagate", "whatever", "propagate_with"}) =>
    /\ IsReport(res)
    /\ captures = 1
    /\ LET e == last.pre.error
           loc == last.loc
           context == res.report.context
       IN  CASE last.op = "context" ->
                  /\ res.report.error = e
                  /\ ContextAt(context, loc,
                               <<Item(loc, ErrorSlot), Item(loc, Message(last.c.text))>>, 0)
             [] last.op \in {"propagate_map", "propagate"} ->
                  /\ res.report.error = ApplyMap(last.map, e)
                  /\ ContextAt(context, loc,
                               <<Item(loc, Kept(e)), Item(loc, ErrorSlot)>>, 1)
             [] last.op = "whatever" ->
                  /\ res.report.error.name = "TestError"
                  /\ res.report.error.message = None
                  /\ ContextAt(context, loc,
                               <<Item(loc, Kept(e)), Item(loc, ErrorSlot)>>, 1)
             [] last.op = "propagate_with" ->
                  /\ res.report.error = ApplyMap(last.map, e)
                  /\ ContextAt(context, loc,
                               <<Item(loc, Kept(e)), Item(loc, ErrorSlot),
                                 Item(loc, Message(last.c.text))>>, 1)

\* propagate_map on a raw error without a message: Discarded, then the slot.
C21_Witness ==
  /\ last.op = "propagate_map" /\ IsRawErr(last.pre)
  /\ last.pre.error.message = None
  /\ IsReport(res)
  /\ res.report.context.items[1].item = Discarded
  /\ res.report.context.error_item = 1

\* The strings a report holds and the lines it renders to.
StringsOf(r) ==
  {r.error.name} \cup {r.error.message[i] : i \in 1..Len(r.error.message)}
    \cup {r.error.sources[i] : i \in 1..Len(r.error.sources)}
    \cup {r.context.items[i].item.text : i \in 1..Len(r.context.items)}
    \cup {fmt(r)[i] : i \in 1..Len(fmt(r))}

\* The strings that would show text t: t itself, a breadcrumb line or a cause
\* line made of it.
Showing(t) ==
  {t, "  Caused by: " \o t} \cup {loc \o ": " \o t : loc \in Locations}

\* C22: whatever arguments bail (or a failing ensure) is given, the report has
\* exactly one entry, an ErrorSlot, no Message entry, and the argument text is
\* in no field of the report and in no line of its rendering.
C22_ArgsDropped ==
  (last.op = "bail" \/ (last.op = "ensure" /\ ~last.cond)) =>
    /\ IsReport(res)
    /\ Len(res.report.context.items) = 1
    /\ res.report.context.items[1].item = ErrorSlot
    /\ \A i \in 1..Len(res.report.context.items) :
         res.report.context.items[i].item.tag # "Message"
    /\ StringsOf(res.report) \cap Showing(last.c.text) = {}
    /\ \A args \in Texts : res \in {bail(args, last.loc, bt, st) :
                                      bt \in BacktraceStatuses, st \in SpanTraceStatuses}

\* A failing ensure given the text "step 2", with both traces captured.
C22_Witness ==
  /\ last.op = "ensure" /\ ~last.cond
  /\ last.c.text = "step 2"
  /\ IsReport(res)
  /\ Len(fmt(res.report)) = 7

====
